---- MODULE Spec2Model ----
(***************************************************************************)
(* Model of the LINE attendance bot: the Firestore collections `users`,    *)
(* `events` and `events/<id>/participants`, the Database service methods   *)
(* of database.py and the webhook / admin handlers of main.py.             *)
(*                                                                         *)
(* Three specifications share the variables:                               *)
(*   SpecStats   get_event_statistics applied to stored snapshots          *)
(*   Spec        concurrent handle_message invocations and member edits    *)
(*   SpecEvents  create_event_api / update_event_api                       *)
(***************************************************************************)
EXTENDS Integers, Sequences, FiniteSets, TLC

VARIABLES
    users,          \* collection 'users': line_id -> document (partial function)
    participants,   \* events/<event_id>/participants: event_id -> (user_id -> document)
    events,         \* collection 'events': id -> document (partial function)
    stats,          \* value returned by the last get_event_statistics call
    stats_event,    \* event_id of that call (0: never called)
    placed,         \* history: per bucket, the line_ids whose rows were appended, in order
    pc,             \* handle_message: position of each running handler
    hm,             \* handle_message: locals of each running handler
    edits_done      \* number of member edits served by the admin API so far

vars == <<users, participants, events, stats, stats_event, placed,
          pc, hm, edits_done>>

----------------------------------------------------------------------------
(* Bounds *)

MaxMembers == 2      \* roster size drawn for get_event_statistics
MaxEvents == 2       \* event ids
MaxMessages == 2     \* webhook messages delivered, each to its own handle_message invocation
MaxEdits == 2        \* member edits served by the admin API in one behaviour

----------------------------------------------------------------------------
(* Values *)

None == "<None>"                 \* Python None where the other values are strings

ACTIVE == "ACTIVE"
INACTIVE == "INACTIVE"
LEAVE == "LEAVE"
UserStatus == {ACTIVE, INACTIVE, LEAVE}

GOING == "GOING"
NOT_GOING == "NOT_GOING"
ParticipantStatus == {GOING, NOT_GOING}

DRAFT == "DRAFT"
PUBLISHED == "PUBLISHED"
FINISHED == "FINISHED"
CANCELED == "CANCELED"
EventStatus == {DRAFT, PUBLISHED, FINISHED, CANCELED}

ADMIN_SETUP_CODE == "8888"

\* User(line_id, display_name, sort_order) with the model's defaults
User(line_id, display_name, sort_order) ==
    [line_id |-> line_id, display_name |-> display_name, club_name |-> None,
     is_admin |-> FALSE, status |-> ACTIVE, sort_order |-> sort_order]

\* dict.get(key, default)
Get(d, key, default) == IF key \in DOMAIN d THEN d[key] ELSE default

\* DocumentReference.update(fields): merge the given fields into the document
DocUpdate(doc, fields) ==
    [f \in DOMAIN doc \cup DOMAIN fields |->
        IF f \in DOMAIN fields THEN fields[f] ELSE doc[f]]

\* sum(...) over a sequence of integers
RECURSIVE Sum(_)
Sum(s) == IF s = <<>> THEN 0 ELSE Head(s) + Sum(Tail(s))

----------------------------------------------------------------------------
(* get_event_statistics *)

Buckets == {"going", "leave", "not_going", "no_response"}

\* where('status', 'in', [ACTIVE, LEAVE])
StatusFilter == {ACTIVE, LEAVE}

\* variant of ScanBefore: the scan ordered by descending sort_order
ScanBeforeDescending(a, b) ==
    \/ users[a].sort_order > users[b].sort_order
    \/ users[a].sort_order = users[b].sort_order /\ a < b
\* order_by('sort_order'): ascending sort_order, ties in ascending document id
ScanBefore(a, b) ==
    \/ users[a].sort_order < users[b].sort_order
    \/ users[a].sort_order = users[b].sort_order /\ a < b

RECURSIVE Stream(_)
Stream(S) ==
    IF S = {} THEN <<>>
    ELSE LET first == CHOOSE a \in S : \A b \in S \ {a} : ScanBefore(a, b)
         IN  <<first>> \o Stream(S \ {first})

\* the loop over all_users_stream filling sorted_uids
SortedUids == Stream({u \in DOMAIN users : users[u].status \in StatusFilter})

\* attendance_map = {p.id: p.to_dict() for p in participants_stream}
AttendanceMap(event_id) == participants[event_id]

\* display_name = user.get('club_name') or user.get('display_name')
DisplayName(user) ==
    IF user.club_name # None /\ user.club_name # "" THEN user.club_name
    ELSE user.display_name

\* variant of RuleChain: rule 5 left out
RuleChainNoFallback(u_status, e_status) ==
    IF e_status = GOING THEN "going"
    ELSE IF u_status = LEAVE THEN "leave"
    ELSE IF u_status = ACTIVE /\ e_status = NOT_GOING THEN "not_going"
    ELSE IF u_status = ACTIVE /\ e_status = None THEN "no_response"
    ELSE "skipped"
\* variant of RuleChain: NOT_GOING tested before LEAVE
RuleChainDeclineFirst(u_status, e_status) ==
    IF e_status = GOING THEN "going"
    ELSE IF e_status = NOT_GOING THEN "not_going"
    ELSE IF u_status = LEAVE THEN "leave"
    ELSE IF u_status = ACTIVE THEN "no_response"
    ELSE "skipped"
\* variant of RuleChain: LEAVE tested before GOING
RuleChainLeaveFirst(u_status, e_status) ==
    IF u_status = LEAVE THEN "leave"
    ELSE IF e_status = GOING THEN "going"
    ELSE IF u_status = ACTIVE /\ e_status = NOT_GOING THEN "not_going"
    ELSE IF u_status = ACTIVE THEN "no_response"
    ELSE "skipped"
\* the if / elif chain of rules 1-5; "skipped" when no branch is taken
RuleChain(u_status, e_status) ==
    IF e_status = GOING THEN "going"
    ELSE IF u_status = LEAVE THEN "leave"
    ELSE IF u_status = ACTIVE /\ e_status = NOT_GOING THEN "not_going"
    ELSE IF u_status = ACTIVE /\ e_status = None THEN "no_response"
    ELSE IF u_status = ACTIVE THEN "no_response"
    ELSE "skipped"

\* the row appended to stats["going"]
GoingRow(display_name, att) ==
    LET guests == Get(att, "guests", <<>>)
        total_guests_adults == Sum([i \in DOMAIN guests |-> Get(guests[i], "adults", 1)])
        total_guests_kids == Sum([i \in DOMAIN guests |-> Get(guests[i], "kids", 0)])
        family_adults == Get(att, "family_adults", 0)
        family_kids == Get(att, "family_kids", 0)
        guest_count == Len(guests)
    IN  [name |-> display_name, guests |-> guest_count, guest_details |-> guests]

\* one iteration of `for uid in sorted_uids`
ClassifyOne(acc, uid, attendance_map) ==
    LET user == users[uid]
        has_att == uid \in DOMAIN attendance_map
        display_name == DisplayName(user)
        u_status == user.status
        e_status == IF has_att THEN Get(attendance_map[uid], "status", None) ELSE None
        bucket == RuleChain(u_status, e_status)
        row == IF bucket = "going" THEN GoingRow(display_name, attendance_map[uid])
               ELSE [name |-> display_name]
    IN  IF bucket = "skipped" THEN acc
        ELSE [stats  |-> [acc.stats EXCEPT ![bucket] = Append(@, row)],
              placed |-> [acc.placed EXCEPT ![bucket] = Append(@, uid)]]

RECURSIVE ClassifyLoop(_, _, _)
ClassifyLoop(acc, uids, attendance_map) ==
    IF uids = <<>> THEN acc
    ELSE ClassifyLoop(ClassifyOne(acc, Head(uids), attendance_map), Tail(uids), attendance_map)

EmptyStats == [going |-> <<>>, leave |-> <<>>, not_going |-> <<>>, no_response |-> <<>>]

GetEventStatistics(event_id) ==
    LET result == ClassifyLoop([stats |-> EmptyStats, placed |-> EmptyStats],
                               SortedUids, AttendanceMap(event_id))
    IN  /\ stats' = result.stats
        /\ placed' = result.placed
        /\ stats_event' = event_id
        /\ UNCHANGED <<users, participants, events, pc, hm, edits_done>>

----------------------------------------------------------------------------
(* Snapshots for get_event_statistics *)

EventIds == 1..MaxEvents
Handlers == 1..MaxMessages

\* Guest.model_dump(); a stored entry may also lack the optional counts
GuestListA == <<[name |-> "x", adults |-> 2, kids |-> 1]>>
GuestListB == <<[name |-> "y"], [name |-> "z", adults |-> 3, kids |-> 0]>>

\* Attendance(...).model_dump()
Attendance(user_id, user_name, status, guests) ==
    [user_id |-> user_id, user_name |-> user_name, status |-> status,
     family_adults |-> 0, family_kids |-> 0, guests |-> guests, updated_at |-> "T0"]

\* stored responses: the two enum values, a status outside the enum, guest lists
ResponseShapes ==
    <<[status |-> NOT_GOING, guests |-> <<>>],
      [status |-> "MAYBE", guests |-> <<>>],
      [status |-> GOING, guests |-> GuestListA],
      [status |-> GOING, guests |-> GuestListB]>>

MemberShapes == [status : UserStatus, sort_order : {1, 2}, club_name : {None, "nick"}]

ProfileName(u) == "user" \o ToString(u)

IdleLocals == [user_id |-> 0, msg |-> None, display_name |-> None, doc_exists |-> FALSE,
               max_order |-> 0, ret |-> <<>>, reply |-> None]

InitRest ==
    /\ stats = EmptyStats
    /\ placed = EmptyStats
    /\ stats_event = 0
    /\ pc = [h \in Handlers |-> "waiting"]
    /\ hm = [h \in Handlers |-> IdleLocals]
    /\ edits_done = 0

InitStats ==
    /\ \E n \in 0..MaxMembers :
         \E m \in [1..n -> MemberShapes], r \in [1..n -> 0..Len(ResponseShapes)] :
            /\ users = [u \in 1..n |->
                          [User(u, ProfileName(u), m[u].sort_order)
                             EXCEPT !.status = m[u].status, !.club_name = m[u].club_name]]
            /\ participants =
                 [e \in EventIds |->
                    IF e = 1
                    THEN [u \in {v \in 1..n : r[v] # 0} |->
                            Attendance(u, ProfileName(u), ResponseShapes[r[u]].status,
                                       ResponseShapes[r[u]].guests)]
                    ELSE [u \in {} |-> 0]]
    /\ events = [e \in {} |-> 0]
    /\ InitRest

NextStats == \E event_id \in EventIds : GetEventStatistics(event_id)

SpecStats == InitStats /\ [][NextStats]_vars

----------------------------------------------------------------------------
(* Properties of get_event_statistics *)

Roster == {u \in DOMAIN users : users[u].status \in {ACTIVE, LEAVE}}

InBucket(u, b) == \E i \in DOMAIN placed[b] : placed[b][i] = u

Occurrences(u) ==
    LET n(b) == Cardinality({i \in DOMAIN placed[b] : placed[b][i] = u})
    IN  n("going") + n("leave") + n("not_going") + n("no_response")

Responses == participants[stats_event]

HasResponse(u, status) == u \in DOMAIN Responses /\ Responses[u].status = status

\* C1: after get_event_statistics every ACTIVE or LEAVE member has exactly one
\* row, in exactly one of the four buckets, whatever its response (none, GOING,
\* NOT_GOING or a status outside the enum); the buckets hold no other rows and
\* each row carries the member's resolved name.
C1_Partition ==
    stats_event # 0 =>
        /\ DOMAIN stats = Buckets
        /\ \A u \in Roster : Occurrences(u) = 1
        /\ \A u \in DOMAIN users \ Roster : Occurrences(u) = 0
        /\ \A b \in Buckets :
             /\ Len(stats[b]) = Len(placed[b])
             /\ \A i \in DOMAIN placed[b] :
                  stats[b][i].name = DisplayName(users[placed[b][i]])

C1_Witness ==
    /\ stats_event = 1
    /\ Cardinality(Roster) >= 2
    /\ \E u \in Roster : users[u].status = ACTIVE /\ HasResponse(u, "MAYBE")
    /\ \E u \in Roster : u \notin DOMAIN Responses
    /\ \A u \in Roster : Occurrences(u) = 1

\* C2: a LEAVE member with a NOT_GOING response, or with no response, is in
\* the leave bucket and not in the not_going bucket.
C2_LeavePrecedence ==
    stats_event # 0 =>
        \A u \in DOMAIN users :
            (users[u].status = LEAVE
               /\ (u \notin DOMAIN Responses \/ HasResponse(u, NOT_GOING)))
            => (InBucket(u, "leave") /\ ~InBucket(u, "not_going"))

C2_Witness ==
    /\ stats_event = 1
    /\ \E u \in DOMAIN users :
          users[u].status = LEAVE /\ HasResponse(u, NOT_GOING) /\ InBucket(u, "leave")

\* C3: a roster member with a GOING response is in the going bucket whatever
\* the membership status; a LEAVE member with a GOING response is not in leave.
C3_GoingOverride ==
    stats_event # 0 =>
        \A u \in Roster :
            HasResponse(u, GOING) =>
                (InBucket(u, "going") /\ (users[u].status = LEAVE => ~InBucket(u, "leave")))

C3_Witness ==
    /\ stats_event = 1
    /\ \E u \in DOMAIN users :
          users[u].status = LEAVE /\ HasResponse(u, GOING) /\ InBucket(u, "going")

\* C5: every row of the going bucket carries adults_total and kids_total, the
\* sums of the guest entries' adults (default 1) and kids (default 0).
C5_GoingRowTotals ==
    stats_event # 0 =>
        \A i \in DOMAIN stats.going :
            LET row == stats.going[i]
                guests == Responses[placed.going[i]].guests
                adults(g) == IF "adults" \in DOMAIN g THEN g.adults ELSE 1
                kids(g) == IF "kids" \in DOMAIN g THEN g.kids ELSE 0
            IN  /\ {"adults_total", "kids_total"} \subseteq DOMAIN row
                /\ row.adults_total = Sum([k \in DOMAIN guests |-> adults(guests[k])])
                /\ row.kids_total = Sum([k \in DOMAIN guests |-> kids(guests[k])])

PositionInScan(u) == CHOOSE i \in DOMAIN SortedUids : SortedUids[i] = u

\* C9: within each bucket the rows keep the order of the roster scan, which is
\* ascending in sort_order; the output is determined by the two snapshots.
C9_OrderStable ==
    stats_event # 0 =>
        \A b \in Buckets :
            \A i, j \in DOMAIN placed[b] :
                i < j =>
                    /\ users[placed[b][i]].sort_order <= users[placed[b][j]].sort_order
                    /\ PositionInScan(placed[b][i]) < PositionInScan(placed[b][j])
                    /\ stats[b][i].name = DisplayName(users[placed[b][i]])
                    /\ stats[b][j].name = DisplayName(users[placed[b][j]])

C9_Witness ==
    /\ stats_event = 1
    /\ \E b \in Buckets :
          /\ Len(placed[b]) >= 2
          /\ users[placed[b][1]].sort_order < users[placed[b][2]].sort_order
          /\ placed[b][1] > placed[b][2]

----------------------------------------------------------------------------
(* handle_message, upsert_user, verify_admin_code, update_member_api *)

\* event.source.user_id: at most one distinct LINE user per delivered message
UserIds == 1..MaxMessages

\* the text "I am the administrator" that handle_message answers with a prompt
IAmAdmin == "wo shi guanliyuan"

\* event.message.text values sent by users
Texts == {"8888", " 8888 ", IAmAdmin, "hello"}

\* str.strip()
Strip(text) == IF text = " 8888 " THEN "8888" ELSE text

\* profile.display_name values LINE may report: users rename freely, so the
\* name fetched for one message differs from the name fetched for any other
ProfileNames == {ProfileName(h) : h \in Handlers}

\* users that have sent a message so far
SeenUsers == DOMAIN users \cup {hm[g].user_id : g \in {k \in Handlers : pc[k] \notin {"waiting", "done"}}}

PromptReply == "enter the setup code"
SuccessReply == "you are now an administrator"

Some(v) == <<v>>
Nil == <<>>

\* handle_message lines 119-124 up to upsert_user's doc = user_ref.get():
\* strip the text, fetch the LINE profile, read the user document and branch
\* on doc.exists.  Each accepted message is served by its own invocation;
\* invocations are interchangeable, so they start in index order, and user ids
\* are opaque, so a user not seen before takes the lowest unused id.
Receive(h, user_id, text, display_name) ==
    /\ pc[h] = "waiting"
    /\ \A g \in Handlers : g < h => pc[g] # "waiting"
    /\ \A u \in UserIds : u < user_id => u \in SeenUsers
    /\ display_name = ProfileName(h)
    /\ LET exists == user_id \in DOMAIN users
       IN  /\ hm' = [hm EXCEPT ![h] = [IdleLocals EXCEPT !.user_id = user_id,
                                                       !.msg = Strip(text),
                                                       !.display_name = display_name,
                                                       !.doc_exists = exists]]
           /\ pc' = [pc EXCEPT ![h] = IF exists THEN "upsert_update" ELSE "max_query"]
    /\ UNCHANGED <<users, participants, events, stats, stats_event, placed, edits_done>>

\* variant of MaxSortOrder: -1 for an empty roster
MaxSortOrderEmptyIsMinusOne ==
    IF DOMAIN users = {} THEN -1
    ELSE LET top == CHOOSE a \in DOMAIN users :
                       \A b \in DOMAIN users : users[a].sort_order >= users[b].sort_order
         IN  Get(users[top], "sort_order", 999)
\* _get_max_sort_order: order_by('sort_order', DESCENDING).limit(1); 0 when empty
MaxSortOrder ==
    IF DOMAIN users = {} THEN 0
    ELSE LET top == CHOOSE a \in DOMAIN users :
                       \A b \in DOMAIN users : users[a].sort_order >= users[b].sort_order
         IN  Get(users[top], "sort_order", 999)

GetMaxSortOrder(h) ==
    /\ pc[h] = "max_query"
    /\ hm' = [hm EXCEPT ![h].max_order = MaxSortOrder]
    /\ pc' = [pc EXCEPT ![h] = "upsert_set"]
    /\ UNCHANGED <<users, participants, events, stats, stats_event, placed,
                   edits_done>>

\* DocumentReference.set(data): create or replace the whole document
DocSet(coll, id, data) ==
    [k \in DOMAIN coll \cup {id} |-> IF k = id THEN data ELSE coll[k]]

\* upsert_user, new user: user_ref.set(User(..., sort_order=max_order + 1))
UpsertSet(h) ==
    /\ pc[h] = "upsert_set"
    /\ users' = DocSet(users, hm[h].user_id,
                       User(hm[h].user_id, hm[h].display_name, hm[h].max_order + 1))
    /\ hm' = [hm EXCEPT ![h].display_name = None, ![h].max_order = 0]
    /\ pc' = [pc EXCEPT ![h] = "dispatch"]
    /\ UNCHANGED <<participants, events, stats, stats_event, placed,
                   edits_done>>

\* variant of RefreshFields: the club nickname is cleared as well
RefreshFieldsWithNickname(display_name) ==
    [display_name |-> display_name, club_name |-> None]
\* upsert_user, existing user: the fields passed to user_ref.update
RefreshFields(display_name) == [display_name |-> display_name]

UpsertUpdate(h) ==
    /\ pc[h] = "upsert_update"
    /\ hm[h].user_id \in DOMAIN users
    /\ users' = [users EXCEPT ![hm[h].user_id] =
                    DocUpdate(@, RefreshFields(hm[h].display_name))]
    /\ hm' = [hm EXCEPT ![h].display_name = None, ![h].max_order = 0]
    /\ pc' = [pc EXCEPT ![h] = "dispatch"]
    /\ UNCHANGED <<participants, events, stats, stats_event, placed,
                   edits_done>>

\* variant of VerifyAdminCode: is_admin is written on every call
VerifyAdminCodeAlwaysWrites(line_id, code) ==
    [users |-> [users EXCEPT ![line_id] = DocUpdate(@, [is_admin |-> code = ADMIN_SETUP_CODE])],
     ret |-> code = ADMIN_SETUP_CODE]
\* verify_admin_code: the roster after the call and the value returned
VerifyAdminCode(line_id, code) ==
    IF code = ADMIN_SETUP_CODE
    THEN [users |-> [users EXCEPT ![line_id] = DocUpdate(@, [is_admin |-> TRUE])],
          ret |-> TRUE]
    ELSE [users |-> users, ret |-> FALSE]

\* handle_message lines 126-146, after upsert_user returned
Dispatch(h) ==
    /\ pc[h] = "dispatch"
    /\ hm[h].user_id \in DOMAIN users
    /\ IF hm[h].msg = IAmAdmin
       THEN /\ hm' = [hm EXCEPT ![h] = [IdleLocals EXCEPT !.reply = PromptReply]]
            /\ users' = users
       ELSE LET v == VerifyAdminCode(hm[h].user_id, hm[h].msg)
            IN  /\ users' = v.users
                /\ hm' = [hm EXCEPT ![h] =
                            [IdleLocals EXCEPT !.ret = Some(v.ret),
                                               !.reply = IF v.ret THEN SuccessReply ELSE None]]
    /\ pc' = [pc EXCEPT ![h] = "done"]
    /\ UNCHANGED <<participants, events, stats, stats_event, placed,
                   edits_done>>

\* verify_admin_token: the caller resolves to a stored user with is_admin set
IsAdmin(caller) == caller \in DOMAIN users /\ Get(users[caller], "is_admin", FALSE)

\* MemberUpdateReq bodies sent by the admin page (Nil: field absent or null)
MemberUpdateReqs ==
    {[sort_order |-> Some(5), status |-> Some(LEAVE), club_name |-> Some("nick"), is_admin |-> Nil],
     [sort_order |-> Nil, status |-> Nil, club_name |-> Nil, is_admin |-> Some(FALSE)]}

\* {k: v for k, v in req.model_dump().items() if v is not None}
NonNullFields(dump) == [k \in {f \in DOMAIN dump : dump[f] # Nil} |-> dump[k][1]]

\* update_member_api -> update_member_status
UpdateMemberApi(caller, user_id, req) ==
    /\ edits_done < MaxEdits
    /\ IsAdmin(caller)
    /\ user_id \in DOMAIN users
    /\ users' = [users EXCEPT ![user_id] = DocUpdate(@, NonNullFields(req))]
    /\ edits_done' = edits_done + 1
    /\ UNCHANGED <<participants, events, stats, stats_event, placed, pc, hm>>

Init ==
    /\ users = [u \in {} |-> 0]
    /\ participants = [e \in EventIds |-> [u \in {} |-> 0]]
    /\ events = [e \in {} |-> 0]
    /\ InitRest

Next ==
    \/ \E h \in Handlers, user_id \in UserIds, text \in Texts, display_name \in ProfileNames :
          Receive(h, user_id, text, display_name)
    \/ \E h \in Handlers : GetMaxSortOrder(h)
    \/ \E h \in Handlers : UpsertSet(h)
    \/ \E h \in Handlers : UpsertUpdate(h)
    \/ \E h \in Handlers : Dispatch(h)
    \/ \E caller \in UserIds, user_id \in UserIds, req \in MemberUpdateReqs :
          UpdateMemberApi(caller, user_id, req)

Spec == Init /\ [][Next]_vars

----------------------------------------------------------------------------
(* Properties of registration and promotion *)

\* handler h takes the step from position `from` to position `to`
Step(h, from, to) == pc[h] = from /\ pc'[h] = to

SortOrders == {users[u].sort_order : u \in DOMAIN users}

Highest(S) == CHOOSE m \in S : \A k \in S : k <= m

C7_RefreshFrame ==
    [][\A h \in Handlers :
          Step(h, "upsert_update", "dispatch") =>
              LET u == hm[h].user_id
              IN  /\ DOMAIN users' = DOMAIN users
                  /\ \A v \in DOMAIN users \ {u} : users'[v] = users[v]
                  /\ DOMAIN users'[u] = DOMAIN users[u]
                  /\ \A f \in DOMAIN users[u] \ {"display_name"} : users'[u][f] = users[u][f]
                  /\ users'[u].display_name = hm[h].display_name]_vars

C7_Witness ==
    \E h \in Handlers :
        /\ pc[h] = "dispatch"
        /\ hm[h].doc_exists
        /\ LET user == users[hm[h].user_id]
           IN  /\ user.display_name = ProfileName(h)
               /\ user.club_name = "nick"
               /\ user.status = LEAVE
               /\ user.sort_order = 5
               /\ user.is_admin

\* C8: verify_admin_code with the configured code sets the member's is_admin
\* and returns true; with any other code it returns false and writes nothing.
C8_VerifyAdminCode ==
    [][\A h \in Handlers :
          (Step(h, "dispatch", "done") /\ hm[h].msg # IAmAdmin) =>
              LET u == hm[h].user_id
              IN  IF hm[h].msg = ADMIN_SETUP_CODE
                  THEN /\ users'[u].is_admin
                       /\ hm'[h].ret = Some(TRUE)
                       /\ \A v \in DOMAIN users \ {u} : users'[v] = users[v]
                       /\ \A f \in DOMAIN users[u] \ {"is_admin"} : users'[u][f] = users[u][f]
                  ELSE /\ hm'[h].ret = Some(FALSE)
                       /\ users' = users]_vars

C8_Witness ==
    /\ \E h \in Handlers : hm[h].ret = Some(TRUE) /\ hm[h].reply = SuccessReply
    /\ \E h \in Handlers : hm[h].ret = Some(FALSE)
    /\ \E u \in DOMAIN users : users[u].is_admin
    /\ \E u \in DOMAIN users : ~users[u].is_admin

\* C10: once a member's is_admin flag is set, no step of any message handler
\* (every handler step moves pc) clears it; only update_member_api may.
C10_PromotionSticks ==
    [][(pc' # pc) =>
          \A u \in DOMAIN users : users[u].is_admin => users'[u].is_admin]_vars

----------------------------------------------------------------------------
(* create_event_api, update_event_api *)

\* Event.created_at default: datetime.now() evaluated once, when models.py is imported
ImportTime == "T0"

Absent == "<absent>"       \* marks a key left out of a request body

Opt(key, value) == IF value = Absent THEN [k \in {} |-> None] ELSE key :> value

\* JSON bodies sent to the event endpoints (None: an explicit null)
EventBody(title, status, speaker, created_at) ==
    [type |-> "meeting", event_date |-> "2026-12-01", event_time |-> "19:00",
     location |-> "hall"]
    @@ Opt("title", title) @@ Opt("status", status)
    @@ Opt("speaker", speaker) @@ Opt("created_at", created_at)

EventBodies ==
    {EventBody(title, status, speaker, created_at) :
        title \in {"t1", "t2", Absent}, status \in {Absent, PUBLISHED, None},
        speaker \in {Absent, None, "bob"}, created_at \in {Absent, "T1"}}

EventFields == {"id", "type", "title", "event_date", "event_time", "location",
                "talk_title", "speaker", "description", "status", "created_at"}
RequiredFields == {"type", "title", "event_date", "event_time", "location"}
OptionalFields == {"id", "talk_title", "speaker", "description"}

\* Event(**body) passes validation
Valid(body) ==
    /\ \A f \in RequiredFields : f \in DOMAIN body /\ body[f] # None
    /\ "status" \in DOMAIN body => body.status \in EventStatus
    /\ "created_at" \in DOMAIN body => body.created_at # None

\* Event(**body).model_dump(): every field, defaults filled in
ModelDump(body) ==
    [f \in EventFields |->
        IF f \in DOMAIN body THEN body[f]
        ELSE IF f = "status" THEN DRAFT
        ELSE IF f = "created_at" THEN ImportTime
        ELSE None]

\* {k: v for k, v in event.model_dump().items() if v is not None}
NotNone(dump) == [k \in {f \in DOMAIN dump : dump[f] # None} |-> dump[k]]

\* db.collection('events').document(): an id not in use
FreshIds == {id \in EventIds : id \notin DOMAIN events}

\* create_event_api -> create_event
CreateEventApi(caller, body) ==
    /\ IsAdmin(caller)
    /\ Valid(body)
    /\ FreshIds # {}
    /\ LET new_id == CHOOSE id \in FreshIds : \A other \in FreshIds : id <= other
           event_data == [ModelDump(body) EXCEPT !.id = ToString(new_id), !.status = DRAFT]
       IN  events' = DocSet(events, new_id, event_data)
    /\ UNCHANGED <<users, participants, stats, stats_event, placed, pc, hm,
                   edits_done>>

\* update_event_api -> update_event
UpdateEventApi(caller, event_id, body) ==
    /\ IsAdmin(caller)
    /\ Valid(body)
    /\ event_id \in DOMAIN events
    /\ LET update_data == NotNone(ModelDump(body))
       IN  events' = [events EXCEPT ![event_id] = DocUpdate(@, update_data)]
    /\ UNCHANGED <<users, participants, stats, stats_event, placed, pc, hm,
                   edits_done>>

\* one promoted administrator is registered; no event exists yet
InitEvents ==
    /\ users = [u \in {1} |-> [User(1, ProfileName(1), 1) EXCEPT !.is_admin = TRUE]]
    /\ participants = [e \in EventIds |-> [u \in {} |-> 0]]
    /\ events = [e \in {} |-> 0]
    /\ InitRest

NextEvents ==
    \/ \E caller \in DOMAIN users, body \in EventBodies : CreateEventApi(caller, body)
    \/ \E caller \in DOMAIN users, event_id \in EventIds, body \in EventBodies :
          UpdateEventApi(caller, event_id, body)

SpecEvents == InitEvents /\ [][NextEvents]_vars

\* C6: an edit changes only the fields its body supplies with a non-null
\* value; every stored field the body leaves out or sets to null, status and
\* created_at included, keeps its stored value.
C6_EditKeepsUnsuppliedFields ==
    [][\A caller \in DOMAIN users, event_id \in EventIds, body \in EventBodies :
          UpdateEventApi(caller, event_id, body) =>
              \A f \in DOMAIN events[event_id] :
                  (f \notin DOMAIN body \/ body[f] = None) =>
                      events'[event_id][f] = events[event_id][f]]_vars

====
